---- MODULE Spec2Model ----
(***************************************************************************)
(* Model of the analytics code of the UK housing dashboard:                *)
(*   database.py          UKHousingDB.volume_by_price (price bands)        *)
(*   fred_integration.py  FredAPI.get_series, UKEconomicData.get_uk_cpi,   *)
(*                        UKEconomicData.get_uk_rpi (adjustment factors)   *)
(*   Home.py              process_price_data (pivot of observation rows),  *)
(*                        main (control flow of the home page)             *)
(*   database.py          UKHousingDB.compare_monthly_releases and         *)
(*   pages/2_Transaction_Volumes.py  the year-over-year change             *)
(* Each component is a pure function of its arguments, so each has its own *)
(* specification: Init draws the arguments from bounded sets and the       *)
(* actions run the function.                                               *)
(***************************************************************************)
EXTENDS Integers, Sequences, FiniteSets, TLC

VARIABLES
    pc,            \* position of the call under study
    interval,      \* volume_by_price argument (thousands of pounds)
    price_limit,   \* volume_by_price argument (thousands of pounds)
    whens,         \* the WHEN clauses of the generated CASE expression
    elseBand,      \* the ELSE clause of the generated CASE expression
    error,         \* exception raised by the call, "none" if it returned
    queryIssued,   \* TRUE once execute_query has been called
    price_gbp,     \* price of the row the database is classifying
    price_band,    \* label the CASE expression gave that row
    raw,           \* rows the economic sources publish (date, value text)
    start_year,    \* first year requested
    end_year,      \* last year requested
    base_year,     \* base_year argument, None for the default
    cpi_data,      \* annual CPI series inside get_uk_cpi
    cpi_base,      \* base_cpi
    cpi_factors,   \* value returned by get_uk_cpi
    cpi_error,     \* exception raised by get_uk_cpi, "none" if it returned
    rpi_data,      \* annual RPI series inside get_uk_rpi
    rpi_base,      \* base_rpi
    rpi_factors,   \* value returned by get_uk_rpi
    rpi_error,     \* exception raised by get_uk_rpi, "none" if it returned
    df_prices,     \* process_price_data argument: rows (year, region, median_price)
    econ_data,     \* process_price_data argument _econ_data, <<>> for None
    analysis_type, \* process_price_data argument
    index_to_first_year,  \* process_price_data argument
    df_processed,  \* frame returned by process_price_data
    norm_error,    \* exception raised by process_price_data, "none" if it returned
    current_counts,   \* rows per group in the current period, 0 for an absent group
    previous_counts,  \* rows per group in the previous period, 0 for an absent group
    other_counts,     \* rows per group in the year before the previous one
    df_monthly,    \* frame returned by compare_monthly_releases
    df_yoy,        \* year-over-year frame of the transaction volumes page
    yoy_error,     \* exception raised by the year-over-year code, "none" if none
    median_table,  \* database content: median price per (year, region)
    services_ready,   \* TRUE once init_services has returned in main()
    selected_regions, \* multiselect value in main(), in the order selected
    year_range,    \* slider value in main()
    message,       \* text main() showed with st.error or st.warning, "none" if none
    econ_requested,   \* TRUE once main() has called load_economic_data
    charts_shown,  \* TRUE once main() has drawn the price trend chart
    home_error     \* exception that ended main(), "none" if none

bandVars == <<interval, price_limit, whens, elseBand, error, queryIssued, price_gbp, price_band>>

econArgs == <<raw, start_year, end_year, base_year>>

cpiVars == <<cpi_data, cpi_base, cpi_factors, cpi_error>>

rpiVars == <<rpi_data, rpi_base, rpi_factors, rpi_error>>

econVars == <<econArgs, cpiVars, rpiVars>>

normArgs == <<df_prices, econ_data, analysis_type, index_to_first_year>>

normVars == <<normArgs, df_processed, norm_error>>

cmpArgs == <<current_counts, previous_counts, other_counts>>

cmpVars == <<cmpArgs, df_monthly, df_yoy, yoy_error>>

homeVars == <<median_table, services_ready, selected_regions, year_range, message,
              econ_requested, charts_shown, home_error>>

vars == <<pc, bandVars, econVars, normVars, cmpVars, homeVars>>

(***************************************************************************)
(* Bounds of the model.                                                    *)
(***************************************************************************)
MaxIntervalSteps == 4
MaxLimitSteps == 24
MaxRows == 2
MaxYears == 3
MaxObs == 2
MaxGroups == 2
MaxCount == 3

(***************************************************************************)
(* Program constants.                                                      *)
(***************************************************************************)
IntervalStep == 50
MegaThreshold == 1000
FirstYear == 2020
None == 0

NoBand == [label |-> "", lo |-> 0]

(***************************************************************************)
(* Values of a pandas float Series, with exact arithmetic: <<n, d>> is the *)
(* fraction n/d in lowest terms, <<0, 0>> is NaN and <<1, 0>> is inf.      *)
(* Rounding of the 64-bit floats is not modelled.                          *)
(***************************************************************************)
NaN == <<0, 0>>

Inf == <<1, 0>>

One == <<1, 1>>

RECURSIVE GCD(_, _)
GCD(a, b) == IF b = 0 THEN a ELSE GCD(b, a % b)

Norm(n, d) ==
    IF d = 0 THEN (IF n = 0 THEN NaN ELSE Inf)
    ELSE LET g == GCD(n, d) IN <<n \div g, d \div g>>

IsNaN(a) == a = NaN

IsPositive(a) == a[1] > 0 /\ a[2] > 0

\* a / b on floats: NaN propagates, x/0 is inf, 0/0 is NaN.
Div(a, b) ==
    IF IsNaN(a) \/ IsNaN(b) THEN NaN ELSE Norm(a[1] * b[2], a[2] * b[1])

Add(a, b) ==
    IF IsNaN(a) \/ IsNaN(b) THEN NaN
    ELSE IF a = Inf \/ b = Inf THEN Inf
    ELSE Norm(a[1] * b[2] + b[1] * a[2], a[2] * b[2])

\* mean() of a sequence of values: NaN entries are skipped, the mean of
\* nothing is NaN.
RECURSIVE SumSkipNaN(_)
SumSkipNaN(vs) ==
    IF vs = <<>> THEN <<0, 1>>
    ELSE IF IsNaN(Head(vs)) THEN SumSkipNaN(Tail(vs))
    ELSE Add(Head(vs), SumSkipNaN(Tail(vs)))

CountNotNaN(vs) == Cardinality({i \in DOMAIN vs : ~IsNaN(vs[i])})

Mean(vs) ==
    IF CountNotNaN(vs) = 0 THEN NaN
    ELSE Div(SumSkipNaN(vs), <<CountNotNaN(vs), 1>>)

(***************************************************************************)
(* A Series indexed by year is a sequence of [year, value] entries in      *)
(* index order.                                                            *)
(***************************************************************************)
Index(series) == {series[i].year : i \in DOMAIN series}

\* series[y], label lookup; y is in the index.
At(series, y) == series[CHOOSE i \in DOMAIN series : series[i].year = y].value

\* series.iloc[-1]; the series is not empty.
ILocLast(series) == series[Len(series)].value

RECURSIVE Ascending(_)
Ascending(S) ==
    IF S = {} THEN <<>>
    ELSE LET m == CHOOSE x \in S : \A y \in S : x <= y
         IN  <<m>> \o Ascending(S \ {m})

\* Mutant of GroupKeys: groups come in order of first appearance.
RECURSIVE GroupKeysUnsorted(_)
GroupKeysUnsorted(rows) ==
    IF rows = <<>> THEN <<>>
    ELSE LET rest == GroupKeysUnsorted(SelectSeq(Tail(rows),
                         LAMBDA r : r.year # Head(rows).year))
         IN  <<Head(rows).year>> \o rest

\* groupby('year') sorts the group keys.
GroupKeys(rows) == Ascending({rows[i].year : i \in DOMAIN rows})

ValuesOfYear(rows, y) ==
    LET sel == SelectSeq(rows, LAMBDA r : r.year = y)
    IN  [i \in DOMAIN sel |-> sel[i].value]

\* df.groupby('year')['value'].mean()
GroupByYearMean(rows) ==
    LET keys == GroupKeys(rows)
    IN  [k \in DOMAIN keys |->
            [year |-> keys[k], value |-> Mean(ValuesOfYear(rows, keys[k]))]]

\* series.resample('YE').mean() followed by index.year: one bin per calendar
\* year from the first to the last observation, empty bins are NaN.
ResampleYearMean(obs) ==
    IF obs = <<>> THEN <<>>
    ELSE LET ys == {obs[i].year : i \in DOMAIN obs}
             lo == CHOOSE x \in ys : \A y \in ys : x <= y
             hi == CHOOSE x \in ys : \A y \in ys : x >= y
         IN  [k \in 1..(hi - lo + 1) |->
                 [year  |-> lo + k - 1,
                  value |-> Mean(ValuesOfYear(obs, lo + k - 1))]]

\* Mutant of FilterYears: the series is not cut to the requested range.
FilterYearsAll(series, s, e) == series

\* rpi_data[(rpi_data.index >= start_year) & (rpi_data.index <= end_year)]
FilterYears(series, s, e) ==
    SelectSeq(series, LAMBDA x : x.year >= s /\ x.year <= e)

(***************************************************************************)
(* The published rows: a date (year and the rest of the date text) and the *)
(* text of the value.                                                      *)
(***************************************************************************)
MonthNames ==
    {"JAN", "FEB", "MAR", "APR", "MAY", "JUN",
     "JUL", "AUG", "SEP", "OCT", "NOV", "DEC"}

\* The regex ^\d{4}\s[A-Z]{3}$ accepts a year followed by three capitals.
MatchesMonthly(date) == date.rest \in MonthNames

\* pd.to_numeric(errors='coerce') and float(): digits parse, the rest is NaN.
ToNumeric(text) ==
    IF \E n \in 0..9 : ToString(n) = text
    THEN <<CHOOSE n \in 0..9 : ToString(n) = text, 1>>
    ELSE NaN

\* The monthly rows of the ONS file with their year and numeric value.
RpiMonthlyRows(rows) ==
    LET monthly == SelectSeq(rows, LAMBDA r : MatchesMonthly(r.date))
    IN  [i \in DOMAIN monthly |->
            [year |-> monthly[i].date.year, value |-> ToNumeric(monthly[i].value)]]

\* The monthly observations FRED returns between observation_start and
\* observation_end.
FredObservations(rows, s, e) ==
    LET sel == SelectSeq(rows, LAMBDA r :
                   MatchesMonthly(r.date) /\ r.date.year >= s /\ r.date.year <= e)
    IN  [i \in DOMAIN sel |->
            [year |-> sel[i].date.year, value |-> ToNumeric(sel[i].value)]]

\* Mutant of CpiBaseValue: an explicit base year takes the first entry.
CpiBaseValueFirst(series, by) ==
    IF by = None THEN ILocLast(series) ELSE series[1].value

\* get_uk_cpi: base_cpi = cpi_data.iloc[-1] if base_year is None, else
\* cpi_data[base_year].
CpiBaseValue(series, by) ==
    IF by = None THEN ILocLast(series) ELSE At(series, by)

\* get_uk_rpi: base_rpi = rpi_data.iloc[-1] if base_year is None, else
\* rpi_data[base_year].
RpiBaseValue(series, by) ==
    IF by = None THEN ILocLast(series) ELSE At(series, by)

\* get_uk_cpi: adjustment_factors = 1 / (cpi_data / base_cpi)
CpiAdjustmentFactors(series, base) ==
    [i \in DOMAIN series |->
        [year |-> series[i].year, value |-> Div(One, Div(series[i].value, base))]]

\* Mutant of RpiAdjustmentFactors: the ratio is not inverted.
RpiAdjustmentFactorsRatio(series, base) ==
    [i \in DOMAIN series |->
        [year |-> series[i].year, value |-> Div(series[i].value, base)]]

\* get_uk_rpi: adjustment_factors = 1 / (rpi_data / base_rpi), rebuilt as a
\* Series over the same values and index.
RpiAdjustmentFactors(series, base) ==
    [i \in DOMAIN series |->
        [year |-> series[i].year, value |-> Div(One, Div(series[i].value, base))]]

\* Nothing fetched, nothing returned, nothing raised.
EconIdle ==
    /\ cpi_data = <<>> /\ cpi_base = NaN /\ cpi_factors = <<>> /\ cpi_error = "none"
    /\ rpi_data = <<>> /\ rpi_base = NaN /\ rpi_factors = <<>> /\ rpi_error = "none"

(***************************************************************************)
(* process_price_data.  A DataFrame is a record of its row labels (years), *)
(* its column labels (regions) and its cells, data[i][j] being the cell of *)
(* row i and column j; a missing cell is NaN.                              *)
(***************************************************************************)
Years == FirstYear..(FirstYear + MaxYears - 1)

\* The regions in the order the page offers them by default.
Regions == <<"London", "East Midlands">>

\* Position of a region label in the lexicographic order of the labels.
RegionRank(r) == IF r = "East Midlands" THEN 1 ELSE 2

\* Mutant of SortedLabels: the labels in descending order.
RECURSIVE SortedLabelsDescending(_)
SortedLabelsDescending(S) ==
    IF S = {} THEN <<>>
    ELSE LET m == CHOOSE x \in S : \A y \in S : RegionRank(x) >= RegionRank(y)
         IN  <<m>> \o SortedLabelsDescending(S \ {m})

RECURSIVE SortedLabels(_)
SortedLabels(S) ==
    IF S = {} THEN <<>>
    ELSE LET m == CHOOSE x \in S : \A y \in S : RegionRank(x) <= RegionRank(y)
         IN  <<m>> \o SortedLabels(S \ {m})

NoFrame == [index |-> <<>>, columns |-> <<>>, data |-> <<>>]

Mul(a, b) ==
    IF IsNaN(a) \/ IsNaN(b) THEN NaN ELSE Norm(a[1] * b[1], a[2] * b[2])

\* Mutant of PivotHasDuplicates: repeated (year, region) pairs go unnoticed.
PivotNoDuplicateCheck(rows) == FALSE

\* pivot() refuses rows that repeat an (index, columns) pair.
PivotHasDuplicates(rows) ==
    Cardinality({<<rows[i].year, rows[i].region>> : i \in DOMAIN rows}) < Len(rows)

\* The cell of (y, r): the median_price of the row with that pair, NaN
\* when there is none.
PivotCell(rows, y, r) ==
    LET at == {i \in DOMAIN rows : rows[i].year = y /\ rows[i].region = r}
    IN  IF at = {} THEN NaN
        ELSE rows[CHOOSE i \in at : \A k \in at : i >= k].median_price

\* df_prices.pivot(index='year', columns='region', values='median_price'):
\* row and column labels come out sorted.
Pivot(rows) ==
    LET ys == Ascending({rows[i].year : i \in DOMAIN rows})
        rs == SortedLabels({rows[i].region : i \in DOMAIN rows})
    IN  [index   |-> ys,
         columns |-> rs,
         data    |-> [i \in DOMAIN ys |->
                        [j \in DOMAIN rs |-> PivotCell(rows, ys[i], rs[j])]]]

\* The row of frame labelled y, as a position, 0 when there is none.
RowOf(frame, y) ==
    IF \E i \in DOMAIN frame.index : frame.index[i] = y
    THEN CHOOSE i \in DOMAIN frame.index : frame.index[i] = y
    ELSE 0

\* df_pivot.mul(series, axis=0): rows and series are aligned on the union of
\* their years; a year missing on either side gives NaN cells.
MulRows(frame, series) ==
    LET ys == Ascending({frame.index[i] : i \in DOMAIN frame.index} \cup Index(series))
    IN  [index   |-> ys,
         columns |-> frame.columns,
         data    |-> [i \in DOMAIN ys |->
                        [j \in DOMAIN frame.columns |->
                            IF RowOf(frame, ys[i]) = 0 \/ ys[i] \notin Index(series)
                            THEN NaN
                            ELSE Mul(frame.data[RowOf(frame, ys[i])][j],
                                     At(series, ys[i]))]]]

\* Mutant of IndexToFirstRow: every column is divided by its first cell that
\* holds a value.
IndexToFirstPresent(frame) ==
    [index   |-> frame.index,
     columns |-> frame.columns,
     data    |-> [i \in DOMAIN frame.index |->
                    [j \in DOMAIN frame.columns |->
                        IF \A k \in DOMAIN frame.index : IsNaN(frame.data[k][j])
                        THEN NaN
                        ELSE Div(frame.data[i][j],
                                 frame.data[CHOOSE k \in DOMAIN frame.index :
                                     /\ ~IsNaN(frame.data[k][j])
                                     /\ \A m \in 1..(k - 1) : IsNaN(frame.data[m][j])][j])]]]

\* df_pivot.apply(lambda x: x/x.iloc[0]): every column is divided by its
\* cell in the first row.
IndexToFirstRow(frame) ==
    [index   |-> frame.index,
     columns |-> frame.columns,
     data    |-> [i \in DOMAIN frame.index |->
                    [j \in DOMAIN frame.columns |->
                        Div(frame.data[i][j], frame.data[1][j])]]]

\* The key of _econ_data that each analysis type multiplies by.
AnalysisTypes ==
    {"Nominal", "Real (CPI Adjusted)", "Real (RPI Adjusted)", "USD (Nominal)"}

EconKey(atype) ==
    IF atype = "Real (CPI Adjusted)" THEN "cpi"
    ELSE IF atype = "Real (RPI Adjusted)" THEN "rpi"
    ELSE "fx"

\* The body of process_price_data after a successful pivot.
ProcessPivot(pivot, econ, atype, indexed) ==
    LET scaled == IF econ # <<>> /\ atype # "Nominal"
                  THEN MulRows(pivot, econ[EconKey(atype)])
                  ELSE pivot
    IN  IF indexed THEN IndexToFirstRow(scaled) ELSE scaled

\* Nothing processed; the arguments are those of an empty nominal request.
NormIdle ==
    /\ df_prices = <<>>
    /\ econ_data = <<>>
    /\ analysis_type = "Nominal"
    /\ index_to_first_year = FALSE
    /\ df_processed = NoFrame
    /\ norm_error = "none"

\* No comparison under way.
CmpIdle ==
    /\ current_counts = [g \in 1..MaxGroups |-> 0]
    /\ previous_counts = [g \in 1..MaxGroups |-> 0]
    /\ other_counts = [g \in 1..MaxGroups |-> 0]
    /\ df_monthly = <<>>
    /\ df_yoy = <<>>
    /\ yoy_error = "none"

\* main() of the home page not entered.
HomeIdle ==
    /\ median_table = {}
    /\ services_ready = FALSE
    /\ selected_regions = <<>>
    /\ year_range = <<FirstYear, FirstYear>>
    /\ message = "none"
    /\ econ_requested = FALSE
    /\ charts_shown = FALSE
    /\ home_error = "none"

(***************************************************************************)
(* volume_by_price: band construction.                                     *)
(***************************************************************************)

\* Mutant of PyRangeLen: the band that straddles the limit is not generated.
PyRangeLenFloor(stop, step) ==
    IF step > 0
    THEN IF stop <= 0 THEN 0 ELSE stop \div step
    ELSE IF stop >= 0 THEN 0 ELSE (0 - stop) \div (0 - step)

\* range(0, stop, step) for step # 0, as the sequence of its elements.
PyRangeLen(stop, step) ==
    IF step > 0
    THEN IF stop <= 0 THEN 0 ELSE (stop + step - 1) \div step
    ELSE IF stop >= 0 THEN 0 ELSE ((0 - stop) + (0 - step) - 1) \div (0 - step)

PyRange(stop, step) == [i \in 1..PyRangeLen(stop, step) |-> (i - 1) * step]

\* The digits of f in 0..999 as the fraction part of x/1000, as repr() of
\* the float prints it: three places, trailing zeros dropped, at least one.
FracDigits(f) ==
    LET d1 == f \div 100
        d2 == (f \div 10) % 10
        d3 == f % 10
    IN  IF d3 # 0 THEN ToString(d1) \o ToString(d2) \o ToString(d3)
        ELSE IF d2 # 0 THEN ToString(d1) \o ToString(d2)
        ELSE ToString(d1)

\* f"{x/1000}" for an int x >= 1000: true division gives a float.
FloatRepr(x) == ToString(x \div 1000) \o "." \o FracDigits(x % 1000)

\* bound = lambda x: f"{x}K" if x < 1000 else f"{x/1000}M"
bound(x) ==
    IF x < MegaThreshold THEN ToString(x) \o "K" ELSE FloatRepr(x) \o "M"

\* Mutant of WhenClause: the condition compares with the band's lower bound.
WhenClauseLowerThreshold(j, step) ==
    [threshold |-> j * 1000,
     label     |-> bound(j) \o "-" \o bound(j + step),
     lo        |-> j,
     hi        |-> j + step]

\* One "WHEN price_gbp <= {(j+interval)*1000} THEN '{bound(j)}-{bound(j+interval)}'".
\* lo and hi are the two numbers the label names.
WhenClause(j, step) ==
    [threshold |-> (j + step) * 1000,
     label     |-> bound(j) \o "-" \o bound(j + step),
     lo        |-> j,
     hi        |-> j + step]

WhenClauses(price_range, step) ==
    [i \in 1..Len(price_range) |-> WhenClause(price_range[i], step)]

\* Mutant of OverStart: the ELSE band is taken to start at the limit.
OverStartAtLimit(price_range, step, limit) == limit

\* "ELSE 'Over {bound(price_range[-1]+interval)}'"; price_range is not empty.
OverStart(price_range, step, limit) == price_range[Len(price_range)] + step

ElseClause(price_range, step, limit) ==
    [label |-> "Over " \o bound(OverStart(price_range, step, limit)),
     lo    |-> OverStart(price_range, step, limit)]

\* Mutant of CaseFrom: the WHEN conditions are strict.
RECURSIVE CaseFromStrict(_, _, _, _)
CaseFromStrict(ws, els, p, i) ==
    IF i > Len(ws) THEN els.label
    ELSE IF p < ws[i].threshold THEN ws[i].label
    ELSE CaseFromStrict(ws, els, p, i + 1)

\* The SQL CASE expression: the first WHEN whose condition holds, else ELSE.
RECURSIVE CaseFrom(_, _, _, _)
CaseFrom(ws, els, p, i) ==
    IF i > Len(ws) THEN els.label
    ELSE IF p <= ws[i].threshold THEN ws[i].label
    ELSE CaseFrom(ws, els, p, i + 1)

CaseLabel(ws, els, p) == CaseFrom(ws, els, p, 1)

\* Prices around every band edge, in pounds.
EdgePrices(ws) ==
    {q \in {e + d : e \in {0} \cup {ws[i].threshold : i \in 1..Len(ws)},
                    d \in {-1, 0, 1}} : q >= 0}

\* Nothing built, nothing raised, nothing queried.
BandsIdle ==
    /\ whens = <<>>
    /\ elseBand = NoBand
    /\ error = "none"
    /\ queryIssued = FALSE
    /\ price_gbp = 0
    /\ price_band = ""

InitBands ==
    /\ pc = "start"
    /\ interval \in {IntervalStep * k : k \in -1..MaxIntervalSteps}
    /\ price_limit \in {IntervalStep * k : k \in -1..MaxLimitSteps}
    /\ BandsIdle
    /\ EconIdle
    /\ raw = <<>> /\ start_year = FirstYear /\ end_year = FirstYear /\ base_year = None
    /\ NormIdle
    /\ CmpIdle
    /\ HomeIdle

\* range() rejects a zero step before anything is built.
VolumeByPriceZeroStep ==
    /\ pc = "start"
    /\ interval = 0
    /\ pc' = "raised"
    /\ error' = "ValueError"
    /\ UNCHANGED <<interval, price_limit, whens, elseBand, queryIssued, price_gbp, price_band>>
    /\ UNCHANGED <<econVars, normVars, cmpVars, homeVars>>

\* price_range[-1] on an empty range raises after the WHEN list was joined;
\* the local is lost with the frame.
VolumeByPriceEmptyRange ==
    /\ pc = "start"
    /\ interval # 0
    /\ PyRangeLen(price_limit, interval) = 0
    /\ pc' = "raised"
    /\ error' = "IndexError"
    /\ UNCHANGED <<interval, price_limit, whens, elseBand, queryIssued, price_gbp, price_band>>
    /\ UNCHANGED <<econVars, normVars, cmpVars, homeVars>>

VolumeByPriceQuery ==
    /\ pc = "start"
    /\ interval # 0
    /\ PyRangeLen(price_limit, interval) > 0
    /\ LET price_range == PyRange(price_limit, interval)
       IN  /\ whens' = WhenClauses(price_range, interval)
           /\ elseBand' = ElseClause(price_range, interval, price_limit)
    /\ queryIssued' = TRUE
    /\ pc' = "queried"
    /\ UNCHANGED <<interval, price_limit, error, price_gbp, price_band>>
    /\ UNCHANGED <<econVars, normVars, cmpVars, homeVars>>

\* The database evaluates the CASE expression for one row.
ClassifyRow ==
    /\ pc \in {"queried", "classified"}
    /\ \E p \in EdgePrices(whens) :
          /\ price_gbp' = p
          /\ price_band' = CaseLabel(whens, elseBand, p)
    /\ pc' = "classified"
    /\ UNCHANGED <<interval, price_limit, whens, elseBand, error, queryIssued>>
    /\ UNCHANGED <<econVars, normVars, cmpVars, homeVars>>

NextBands ==
    \/ VolumeByPriceZeroStep
    \/ VolumeByPriceEmptyRange
    \/ VolumeByPriceQuery
    \/ ClassifyRow

SpecBands == InitBands /\ [][NextBands]_vars

(***************************************************************************)
(* get_uk_rpi and get_uk_cpi, each called once with the same arguments;    *)
(* load_economic_data hands both the same year range.                      *)
(***************************************************************************)
\* The rows a source can publish: a monthly row per year with a numeric or
\* a non-numeric value, and a quarterly row.
CsvRows ==
    {[date |-> [year |-> y, rest |-> "JAN"], value |-> t] :
        y \in Years, t \in {"1", "3", "x"}}
    \cup {[date |-> [year |-> FirstYear, rest |-> "Q1"], value |-> "3"]}

InitEcon ==
    /\ pc = "start"
    /\ raw \in UNION {[1..n -> CsvRows] : n \in 0..MaxRows}
    /\ start_year \in Years
    /\ end_year \in Years
    /\ start_year <= end_year
    /\ base_year \in {None} \cup Years
    /\ EconIdle
    /\ BandsIdle
    /\ interval = 0 /\ price_limit = 0
    /\ NormIdle
    /\ CmpIdle
    /\ HomeIdle

\* The annual RPI series of get_uk_rpi before the base is chosen.
RpiAnnual(rows, s, e) == FilterYears(GroupByYearMean(RpiMonthlyRows(rows)), s, e)

\* get_uk_rpi, the download does not answer 200.
GetUkRpiDownloadFails ==
    /\ pc = "start"
    /\ rpi_error' = "ValueError: Failed to download RPI data"
    /\ pc' = "rpi_done"
    /\ UNCHANGED <<rpi_data, rpi_base, rpi_factors>>
    /\ UNCHANGED <<econArgs, cpiVars, bandVars, normVars, cmpVars, homeVars>>

\* get_uk_rpi, raise ValueError(f"No RPI data found for year range ...")
GetUkRpiNoData ==
    /\ pc = "start"
    /\ RpiAnnual(raw, start_year, end_year) = <<>>
    /\ rpi_data' = <<>>
    /\ rpi_error' = "ValueError: No RPI data found"
    /\ pc' = "rpi_done"
    /\ UNCHANGED <<rpi_base, rpi_factors>>
    /\ UNCHANGED <<econArgs, cpiVars, bandVars, normVars, cmpVars, homeVars>>

\* get_uk_rpi, raise ValueError(f"Base year {base_year} not found in RPI data")
GetUkRpiBaseYearNotFound ==
    /\ pc = "start"
    /\ RpiAnnual(raw, start_year, end_year) # <<>>
    /\ base_year # None
    /\ base_year \notin Index(RpiAnnual(raw, start_year, end_year))
    /\ rpi_data' = RpiAnnual(raw, start_year, end_year)
    /\ rpi_error' = "ValueError: Base year not found in RPI data"
    /\ pc' = "rpi_done"
    /\ UNCHANGED <<rpi_base, rpi_factors>>
    /\ UNCHANGED <<econArgs, cpiVars, bandVars, normVars, cmpVars, homeVars>>

\* get_uk_rpi returns the adjustment factors.
GetUkRpiReturns ==
    /\ pc = "start"
    /\ RpiAnnual(raw, start_year, end_year) # <<>>
    /\ base_year # None => base_year \in Index(RpiAnnual(raw, start_year, end_year))
    /\ rpi_data' = RpiAnnual(raw, start_year, end_year)
    /\ rpi_base' = RpiBaseValue(rpi_data', base_year)
    /\ rpi_factors' = RpiAdjustmentFactors(rpi_data', rpi_base')
    /\ pc' = "rpi_done"
    /\ UNCHANGED rpi_error
    /\ UNCHANGED <<econArgs, cpiVars, bandVars, normVars, cmpVars, homeVars>>

\* FredAPI.get_series with observations in the requested range.
FredGetSeries ==
    /\ pc = "rpi_done"
    /\ FredObservations(raw, start_year, end_year) # <<>>
    /\ cpi_data' = ResampleYearMean(FredObservations(raw, start_year, end_year))
    /\ pc' = "cpi_fetched"
    /\ UNCHANGED <<cpi_base, cpi_factors, cpi_error>>
    /\ UNCHANGED <<econArgs, rpiVars, bandVars, normVars, cmpVars, homeVars>>

\* FredAPI.get_series with no observation in the requested range: the client
\* library hands back a Series without dates, which resample() rejects, or
\* an empty dated Series, which passes through.
FredGetSeriesEmpty ==
    /\ pc = "rpi_done"
    /\ FredObservations(raw, start_year, end_year) = <<>>
    /\ \/ /\ cpi_error' = "TypeError"
          /\ pc' = "done"
       \/ /\ cpi_error' = "none"
          /\ pc' = "cpi_fetched"
    /\ UNCHANGED <<cpi_data, cpi_base, cpi_factors>>
    /\ UNCHANGED <<econArgs, rpiVars, bandVars, normVars, cmpVars, homeVars>>

\* get_uk_cpi, base_year is None and cpi_data.iloc[-1] is out of bounds.
GetUkCpiEmptyLatest ==
    /\ pc = "cpi_fetched"
    /\ base_year = None
    /\ cpi_data = <<>>
    /\ cpi_error' = "IndexError"
    /\ pc' = "done"
    /\ UNCHANGED <<cpi_data, cpi_base, cpi_factors>>
    /\ UNCHANGED <<econArgs, rpiVars, bandVars, normVars, cmpVars, homeVars>>

\* get_uk_cpi, raise ValueError(f"Base year {base_year} not found in CPI data")
GetUkCpiBaseYearNotFound ==
    /\ pc = "cpi_fetched"
    /\ base_year # None
    /\ base_year \notin Index(cpi_data)
    /\ cpi_error' = "ValueError: Base year not found in CPI data"
    /\ pc' = "done"
    /\ UNCHANGED <<cpi_data, cpi_base, cpi_factors>>
    /\ UNCHANGED <<econArgs, rpiVars, bandVars, normVars, cmpVars, homeVars>>

\* get_uk_cpi returns the adjustment factors.
GetUkCpiReturns ==
    /\ pc = "cpi_fetched"
    /\ IF base_year = None THEN cpi_data # <<>> ELSE base_year \in Index(cpi_data)
    /\ cpi_base' = CpiBaseValue(cpi_data, base_year)
    /\ cpi_factors' = CpiAdjustmentFactors(cpi_data, cpi_base')
    /\ pc' = "done"
    /\ UNCHANGED <<cpi_data, cpi_error>>
    /\ UNCHANGED <<econArgs, rpiVars, bandVars, normVars, cmpVars, homeVars>>

NextEcon ==
    \/ GetUkRpiDownloadFails
    \/ GetUkRpiNoData
    \/ GetUkRpiBaseYearNotFound
    \/ GetUkRpiReturns
    \/ FredGetSeries
    \/ FredGetSeriesEmpty
    \/ GetUkCpiEmptyLatest
    \/ GetUkCpiBaseYearNotFound
    \/ GetUkCpiReturns

SpecEcon == InitEcon /\ [][NextEcon]_vars

(***************************************************************************)
(* process_price_data, called with any rows and any economic data.         *)
(***************************************************************************)
PriceRows ==
    {[year |-> y, region |-> Regions[k], median_price |-> <<v, 1>>] :
        y \in Years, k \in DOMAIN Regions, v \in {0, 2}}

\* An adjustment series over the years ys; later years have smaller factors
\* and the last year of the model has factor 1.
AdjustmentOver(ys) ==
    LET keys == Ascending(ys)
    IN  [i \in DOMAIN keys |->
            [year |-> keys[i], value |-> <<FirstYear + MaxYears - keys[i], 1>>]]

\* The dictionaries load_economic_data can hand over: the series of every
\* key covers the same years.
EconDicts ==
    {[k \in {"cpi", "rpi", "fx"} |-> AdjustmentOver(ys)] : ys \in SUBSET Years}

InitNorm ==
    /\ pc = "start"
    /\ df_prices \in UNION {[1..n -> PriceRows] : n \in 0..MaxObs}
    /\ econ_data \in {<<>>} \cup EconDicts
    /\ analysis_type \in AnalysisTypes
    /\ index_to_first_year \in BOOLEAN
    /\ df_processed = NoFrame
    /\ norm_error = "none"
    /\ BandsIdle
    /\ interval = 0 /\ price_limit = 0
    /\ EconIdle
    /\ raw = <<>> /\ start_year = FirstYear /\ end_year = FirstYear /\ base_year = None
    /\ CmpIdle
    /\ HomeIdle

\* pivot() raises ValueError("Index contains duplicate entries, cannot reshape").
ProcessPriceDataRaises ==
    /\ pc = "start"
    /\ PivotHasDuplicates(df_prices)
    /\ norm_error' = "ValueError: Index contains duplicate entries"
    /\ pc' = "raised"
    /\ UNCHANGED <<normArgs, df_processed>>
    /\ UNCHANGED <<bandVars, econVars, cmpVars, homeVars>>

ProcessPriceDataReturns ==
    /\ pc = "start"
    /\ ~PivotHasDuplicates(df_prices)
    /\ df_processed' = ProcessPivot(Pivot(df_prices), econ_data,
                                    analysis_type, index_to_first_year)
    /\ pc' = "returned"
    /\ UNCHANGED <<normArgs, norm_error>>
    /\ UNCHANGED <<bandVars, econVars, cmpVars, homeVars>>

NextNorm ==
    \/ ProcessPriceDataRaises
    \/ ProcessPriceDataReturns

SpecNorm == InitNorm /\ [][NextNorm]_vars

(***************************************************************************)
(* The two period comparisons: compare_monthly_releases (SQL) and the      *)
(* year-over-year change of the transaction volumes page (pandas).  A      *)
(* period is given by the number of rows it holds for each group key       *)
(* (month, price band); a group with no rows is absent from the period.    *)
(***************************************************************************)
Groups == 1..MaxGroups

Counts == 0..MaxCount

\* Negation and rounding to one decimal place.
Neg(a) == IF a[2] = 0 THEN a ELSE <<-a[1], a[2]>>

Abs(n) == IF n < 0 THEN -n ELSE n

Sign(n) == IF n < 0 THEN -1 ELSE 1

\* ROUND(x::numeric, 1) of PostgreSQL: ties go away from zero.
SqlRound1(a) ==
    IF a[2] = 0 THEN a
    ELSE LET t == Abs(a[1]) * 10
             q == t \div a[2]
             r == t % a[2]
         IN  Norm(Sign(a[1]) * (IF 2 * r >= a[2] THEN q + 1 ELSE q), 10)

\* Series.round(1) of pandas: ties go to the even digit; NaN and inf stay.
NpRound1(a) ==
    IF a[2] = 0 THEN a
    ELSE LET t == Abs(a[1]) * 10
             q == t \div a[2]
             r == t % a[2]
         IN  Norm(Sign(a[1]) * (IF 2 * r > a[2] THEN q + 1
                                ELSE IF 2 * r = a[2] THEN q + (q % 2)
                                ELSE q), 10)

\* SQL NULL of an integer column; no count is negative.
SqlNull == -1

Coalesce(x, d) == IF x = SqlNull THEN d ELSE x

\* GROUP BY month with COUNT(*): the months that have rows.
GroupedMonths(counts) == {m \in Groups : counts[m] > 0}

\* p.previous_count of the LEFT JOIN: NULL for a month without previous rows.
LeftJoinPrevious(prev, m) ==
    IF m \in GroupedMonths(prev) THEN prev[m] ELSE SqlNull

\* The CASE expression of percentage_change; read_sql_query delivers NULL
\* as NaN.
PercentageChange(c, p) ==
    IF p # SqlNull /\ p > 0
    THEN SqlRound1(Norm((c - p) * 100, p))
    ELSE NaN

\* The final SELECT of compare_monthly_releases.
CompareMonthlyRows(cur, prev) ==
    LET months == Ascending(GroupedMonths(cur))
    IN  [i \in DOMAIN months |->
            LET m == months[i]
                p == LeftJoinPrevious(prev, m)
            IN  [month             |-> m,
                 current_count     |-> cur[m],
                 previous_count    |-> Coalesce(p, 0),
                 count_difference  |-> cur[m] - Coalesce(p, 0),
                 percentage_change |-> PercentageChange(cur[m], p)]]

\* The year the slider of the volumes page selects; min_value is
\* min_year + 2.
SelectedYear == FirstYear + 2

\* df_total: one row per (year, price_band) that has transactions.
DfTotal(cur, prev, other) ==
    LET counts(y) == IF y = SelectedYear THEN cur
                     ELSE IF y = SelectedYear - 1 THEN prev
                     ELSE other
    IN  UNION {{[year |-> y, price_band |-> g, transaction_count |-> counts(y)[g]] :
                    g \in {k \in Groups : counts(y)[k] > 0}} :
               y \in (SelectedYear - 2)..SelectedYear}

\* df_yoy after the isin filter.
DfYoyRows(total) ==
    {r \in total : r.year \in {SelectedYear, SelectedYear - 1}}

\* The year columns of df_yoy_pivot.
YoyColumns(rows) == {r.year : r \in rows}

\* A cell of df_yoy_pivot: NaN when the band has no row for the year.
YoyCell(rows, g, y) ==
    IF \E r \in rows : r.price_band = g /\ r.year = y
    THEN <<(CHOOSE r \in rows : r.price_band = g /\ r.year = y).transaction_count, 1>>
    ELSE NaN

\* df_yoy_pivot[selected_year] or df_yoy_pivot[selected_year - 1] raises
\* KeyError when the year has no column.
YoyKeyError(rows) ==
    ~({SelectedYear, SelectedYear - 1} \subseteq YoyColumns(rows))

\* ((current - previous) / previous * 100).round(1) for every band of the
\* pivot.
YoyChangeRows(rows) ==
    LET bands == Ascending({r.price_band : r \in rows})
    IN  [i \in DOMAIN bands |->
            LET c == YoyCell(rows, bands[i], SelectedYear)
                p == YoyCell(rows, bands[i], SelectedYear - 1)
            IN  [price_band |-> bands[i],
                 yoy_change |-> NpRound1(Mul(Div(Add(c, Neg(p)), p), <<100, 1>>))]]

InitCompare ==
    /\ pc = "start"
    /\ current_counts \in [Groups -> Counts]
    /\ previous_counts \in [Groups -> Counts]
    /\ other_counts \in [Groups -> {0, MaxCount}]
    /\ df_monthly = <<>>
    /\ df_yoy = <<>>
    /\ yoy_error = "none"
    /\ BandsIdle
    /\ interval = 0 /\ price_limit = 0
    /\ EconIdle
    /\ raw = <<>> /\ start_year = FirstYear /\ end_year = FirstYear /\ base_year = None
    /\ NormIdle
    /\ HomeIdle

\* compare_monthly_releases on the two releases.
CompareMonthlyReleases ==
    /\ pc = "start"
    /\ df_monthly' = CompareMonthlyRows(current_counts, previous_counts)
    /\ pc' = "monthly_done"
    /\ UNCHANGED <<cmpArgs, df_yoy, yoy_error>>
    /\ UNCHANGED <<bandVars, econVars, normVars, homeVars>>

\* The year-over-year code of the volumes page, when a year has no rows.
YoyChangeRaises ==
    /\ pc = "start"
    /\ YoyKeyError(DfYoyRows(DfTotal(current_counts, previous_counts, other_counts)))
    /\ yoy_error' = "KeyError"
    /\ pc' = "yoy_raised"
    /\ UNCHANGED <<cmpArgs, df_monthly, df_yoy>>
    /\ UNCHANGED <<bandVars, econVars, normVars, homeVars>>

YoyChangeReturns ==
    /\ pc = "start"
    /\ ~YoyKeyError(DfYoyRows(DfTotal(current_counts, previous_counts, other_counts)))
    /\ df_yoy' = YoyChangeRows(DfYoyRows(DfTotal(current_counts, previous_counts, other_counts)))
    /\ pc' = "yoy_done"
    /\ UNCHANGED <<cmpArgs, df_monthly, yoy_error>>
    /\ UNCHANGED <<bandVars, econVars, normVars, homeVars>>

NextCompare ==
    \/ CompareMonthlyReleases
    \/ YoyChangeRaises
    \/ YoyChangeReturns

SpecCompare == InitCompare /\ [][NextCompare]_vars

(***************************************************************************)
(* main() of the home page: services, sidebar controls, price rows,        *)
(* economic data, processing and the two tabs.  The database holds one     *)
(* median price per (year, region); the economic sources deliver any       *)
(* series over years of the requested range, or fail.                      *)
(***************************************************************************)
HomeRows == {r \in PriceRows : r.median_price = <<2, 1>>}

HomeTables == {t \in SUBSET HomeRows : Cardinality(t) <= MaxObs}

RegionSet == {Regions[k] : k \in DOMAIN Regions}

\* Values of the multiselect: regions without repetition, in the order the
\* user selected them.
Selections ==
    {s \in UNION {[1..n -> RegionSet] : n \in 0..Len(Regions)} :
        \A i, k \in DOMAIN s : i # k => s[i] # s[k]}

\* Values of the year slider between min_year and max_year.
YearRanges == {<<a, b>> : a \in Years, b \in Years} \cap {r \in Years \X Years : r[1] <= r[2]}

\* ORDER BY year, region.
RowBefore(a, b) ==
    \/ a.year < b.year
    \/ a.year = b.year /\ RegionRank(a.region) < RegionRank(b.region)

RECURSIVE OrderByYearRegion(_)
OrderByYearRegion(S) ==
    IF S = {} THEN <<>>
    ELSE LET m == CHOOSE x \in S : \A y \in S \ {x} : RowBefore(x, y)
         IN  <<m>> \o OrderByYearRegion(S \ {m})

\* The query of get_regional_prices.
GetRegionalPrices(table, regions, y0, y1) ==
    OrderByYearRegion({r \in table :
        /\ r.year >= y0 /\ r.year <= y1
        /\ \E k \in DOMAIN regions : regions[k] = r.region})

\* Mutant of NeedsEconomicData: economic data is loaded for every type.
NeedsEconomicDataAlways(atype) == TRUE

\* if analysis_type != "Nominal"
NeedsEconomicData(atype) == atype # "Nominal"

InitHome ==
    /\ pc = "start"
    /\ median_table \in HomeTables
    /\ services_ready = FALSE
    /\ selected_regions = <<>>
    /\ year_range = <<FirstYear, FirstYear>>
    /\ message = "none"
    /\ econ_requested = FALSE
    /\ charts_shown = FALSE
    /\ home_error = "none"
    /\ NormIdle
    /\ CmpIdle
    /\ BandsIdle
    /\ interval = 0 /\ price_limit = 0
    /\ EconIdle
    /\ raw = <<>> /\ start_year = FirstYear /\ end_year = FirstYear /\ base_year = None

\* init_services raises ValueError (no FRED key): st.error and return.
InitServicesRaises ==
    /\ pc = "start"
    /\ message' = "Error initializing services"
    /\ pc' = "returned"
    /\ UNCHANGED <<median_table, services_ready, selected_regions, year_range,
                   econ_requested, charts_shown, home_error>>
    /\ UNCHANGED <<bandVars, econVars, normVars, cmpVars>>

InitServicesReturns ==
    /\ pc = "start"
    /\ services_ready' = TRUE
    /\ pc' = "services"
    /\ UNCHANGED <<median_table, selected_regions, year_range, message,
                   econ_requested, charts_shown, home_error>>
    /\ UNCHANGED <<bandVars, econVars, normVars, cmpVars>>

\* get_available_regions or get_year_range fails: execute_query re-raises
\* and main() does not catch it.
SidebarQueryRaises ==
    /\ pc = "services"
    /\ home_error' = "DatabaseError"
    /\ pc' = "crashed"
    /\ UNCHANGED <<median_table, services_ready, selected_regions, year_range,
                   message, econ_requested, charts_shown>>
    /\ UNCHANGED <<bandVars, econVars, normVars, cmpVars>>

\* The sidebar widgets deliver the user's choices.
SidebarControls ==
    /\ pc = "services"
    /\ \E sel \in Selections, yr \in YearRanges, atype \in AnalysisTypes, idx \in BOOLEAN :
          /\ selected_regions' = sel
          /\ year_range' = yr
          /\ analysis_type' = atype
          /\ index_to_first_year' = idx
    /\ pc' = "controls"
    /\ UNCHANGED <<median_table, services_ready, message, econ_requested,
                   charts_shown, home_error>>
    /\ UNCHANGED <<df_prices, econ_data, df_processed, norm_error>>
    /\ UNCHANGED <<bandVars, econVars, cmpVars>>

\* if not selected_regions: st.warning and return.
NoRegionSelected ==
    /\ pc = "controls"
    /\ selected_regions = <<>>
    /\ message' = "Please select at least one region to analyze."
    /\ pc' = "returned"
    /\ UNCHANGED <<median_table, services_ready, selected_regions, year_range,
                   econ_requested, charts_shown, home_error>>
    /\ UNCHANGED <<bandVars, econVars, normVars, cmpVars>>

LoadRegionalPrices ==
    /\ pc = "controls"
    /\ selected_regions # <<>>
    /\ df_prices' = GetRegionalPrices(median_table, selected_regions,
                                      year_range[1], year_range[2])
    /\ pc' = "prices"
    /\ UNCHANGED homeVars
    /\ UNCHANGED <<econ_data, analysis_type, index_to_first_year, df_processed, norm_error>>
    /\ UNCHANGED <<bandVars, econVars, cmpVars>>

LoadRegionalPricesRaises ==
    /\ pc = "controls"
    /\ selected_regions # <<>>
    /\ home_error' = "DatabaseError"
    /\ pc' = "crashed"
    /\ UNCHANGED <<median_table, services_ready, selected_regions, year_range,
                   message, econ_requested, charts_shown>>
    /\ UNCHANGED <<bandVars, econVars, normVars, cmpVars>>

\* load_economic_data returns the three factor series.
LoadEconomicDataReturns ==
    /\ pc = "prices"
    /\ NeedsEconomicData(analysis_type)
    /\ \E ys \in SUBSET (year_range[1]..year_range[2]) :
          econ_data' = [k \in {"cpi", "rpi", "fx"} |-> AdjustmentOver(ys)]
    /\ econ_requested' = TRUE
    /\ pc' = "econ"
    /\ UNCHANGED <<median_table, services_ready, selected_regions, year_range,
                   message, charts_shown, home_error>>
    /\ UNCHANGED <<df_prices, analysis_type, index_to_first_year, df_processed, norm_error>>
    /\ UNCHANGED <<bandVars, econVars, cmpVars>>

\* load_economic_data raises: st.error and return.
LoadEconomicDataRaises ==
    /\ pc = "prices"
    /\ NeedsEconomicData(analysis_type)
    /\ econ_requested' = TRUE
    /\ message' = "Error loading economic data"
    /\ pc' = "returned"
    /\ UNCHANGED <<median_table, services_ready, selected_regions, year_range,
                   charts_shown, home_error>>
    /\ UNCHANGED <<bandVars, econVars, normVars, cmpVars>>

\* The call of process_price_data; the rows of a GROUP BY year, region
\* never repeat a pair, so the pivot does not raise.
ProcessPriceData ==
    /\ \/ pc = "econ"
       \/ pc = "prices" /\ ~NeedsEconomicData(analysis_type)
    /\ IF PivotHasDuplicates(df_prices)
       THEN /\ home_error' = "ValueError: Index contains duplicate entries"
            /\ pc' = "crashed"
            /\ UNCHANGED df_processed
       ELSE /\ df_processed' = ProcessPivot(Pivot(df_prices), econ_data,
                                            analysis_type, index_to_first_year)
            /\ pc' = "processed"
            /\ UNCHANGED home_error
    /\ UNCHANGED <<median_table, services_ready, selected_regions, year_range,
                   message, econ_requested, charts_shown>>
    /\ UNCHANGED <<normArgs, norm_error>>
    /\ UNCHANGED <<bandVars, econVars, cmpVars>>

\* Tab 1: px.line and st.plotly_chart.
RenderPriceTrends ==
    /\ pc = "processed"
    /\ charts_shown' = TRUE
    /\ pc' = "charted"
    /\ UNCHANGED <<median_table, services_ready, selected_regions, year_range,
                   message, econ_requested, home_error>>
    /\ UNCHANGED <<bandVars, econVars, normVars, cmpVars>>

\* Tab 2 with an empty frame and no indexing: df_processed.iloc[-1] raises.
TotalChangeRaises ==
    /\ pc = "charted"
    /\ ~index_to_first_year
    /\ df_processed.index = <<>>
    /\ home_error' = "IndexError"
    /\ pc' = "crashed"
    /\ UNCHANGED <<median_table, services_ready, selected_regions, year_range,
                   message, econ_requested, charts_shown>>
    /\ UNCHANGED <<bandVars, econVars, normVars, cmpVars>>

ShowDataAnalysis ==
    /\ pc = "charted"
    /\ index_to_first_year \/ df_processed.index # <<>>
    /\ pc' = "done"
    /\ UNCHANGED homeVars
    /\ UNCHANGED <<bandVars, econVars, normVars, cmpVars>>

NextHome ==
    \/ InitServicesRaises
    \/ InitServicesReturns
    \/ SidebarQueryRaises
    \/ SidebarControls
    \/ NoRegionSelected
    \/ LoadRegionalPrices
    \/ LoadRegionalPricesRaises
    \/ LoadEconomicDataReturns
    \/ LoadEconomicDataRaises
    \/ ProcessPriceData
    \/ RenderPriceTrends
    \/ TotalChangeRaises
    \/ ShowDataAnalysis

SpecHome == InitHome /\ [][NextHome]_vars

(***************************************************************************)
(* Views of the generated CASE expression as a list of price bands: band i *)
(* for i <= Len(whens) is WHEN clause i, band Len(whens)+1 is the ELSE.    *)
(***************************************************************************)
ValidRange == interval > 0 /\ price_limit >= interval

BandsBuilt == pc \in {"queried", "classified"}

NumBands == Len(whens) + 1

BandLabel(i) == IF i <= Len(whens) THEN whens[i].label ELSE elseBand.label

BandLo(i) == IF i <= Len(whens) THEN whens[i].lo ELSE elseBand.lo

BandUnbounded(i) == i > Len(whens)

\* C1: for valid (interval, limit) the bands are an ordered partition of the
\* price axis: the first starts at 0, each band starts where the previous
\* one ends, every bounded band is non-empty, the last band is the unbounded
\* ELSE band, and every classified price gets the label of one of the bands.
C1_BandsPartition ==
    (BandsBuilt /\ ValidRange) =>
        /\ BandLo(1) = 0
        /\ \A i \in 1..Len(whens) :
              /\ whens[i].lo < whens[i].hi
              /\ whens[i].threshold = whens[i].hi * 1000
              /\ BandLo(i + 1) = whens[i].hi
        /\ BandUnbounded(NumBands) /\ ~BandUnbounded(Len(whens))
        /\ (pc = "classified" =>
               \E i \in 1..NumBands : BandLabel(i) = price_band)

C1_Witness ==
    /\ pc = "classified"
    /\ ValidRange
    /\ Len(whens) >= 3
    /\ price_limit % interval # 0
    /\ price_gbp > elseBand.lo * 1000

\* Band i contains p under the half-open reading [lo*1000, hi*1000).
InLowerClosed(i, p) ==
    /\ BandLo(i) * 1000 <= p
    /\ (BandUnbounded(i) \/ p < whens[i].hi * 1000)

\* Band i contains p under the reading (lo*1000, hi*1000], the first band
\* also taking everything below it.
InUpperClosed(i, p) ==
    /\ (i = 1 \/ BandLo(i) * 1000 < p)
    /\ (BandUnbounded(i) \/ p <= whens[i].hi * 1000)

\* C2 as stated: the band a price is assigned to contains it under the
\* half-open reading [lower*1000, upper*1000), and no other band does.
C2_LowerClosedOriginal ==
    (pc = "classified" /\ ValidRange) =>
        \A i \in 1..NumBands :
            (BandLabel(i) = price_band) <=> InLowerClosed(i, price_gbp)

\* C2 amended: every price p >= 0 is assigned to exactly one band, and that
\* band satisfies lower*1000 < p <= upper*1000 (the first band also takes
\* p = 0); a price equal to a boundary is assigned to the band that ends
\* at that boundary.
C2_UpperClosed ==
    (pc = "classified" /\ ValidRange) =>
        /\ Cardinality({i \in 1..NumBands : BandLabel(i) = price_band}) = 1
        /\ \A i \in 1..NumBands :
              (BandLabel(i) = price_band) <=> InUpperClosed(i, price_gbp)
        /\ \A i \in 1..Len(whens) :
              price_gbp = whens[i].hi * 1000 => price_band = whens[i].label

C2_Witness ==
    /\ pc = "classified"
    /\ ValidRange
    /\ Len(whens) >= 2
    /\ price_gbp = whens[1].hi * 1000
    /\ price_band = whens[1].label

\* The least multiple of step that is >= limit, for step > 0 and limit > 0.
CeilMultiple(limit, step) == ((limit + step - 1) \div step) * step

\* C3 as stated: for every valid (interval, limit) the ELSE band starts at
\* the limit, is labelled "Over " + the formatted limit, and no bounded band
\* extends past the limit.
C3_OverAtLimitOriginal ==
    (BandsBuilt /\ ValidRange) =>
        /\ elseBand.lo = price_limit
        /\ elseBand.label = "Over " \o bound(price_limit)
        /\ \A i \in 1..Len(whens) : whens[i].hi <= price_limit

\* C3 amended: the ELSE band starts at the upper bound of the last bounded
\* band, which is the least multiple of interval >= limit (the limit itself
\* when it is a multiple of interval), and is labelled "Over " + that bound
\* formatted; every bounded band starts below the limit.
C3_OverAtLastBound ==
    (BandsBuilt /\ ValidRange) =>
        /\ elseBand.lo = whens[Len(whens)].hi
        /\ elseBand.lo = CeilMultiple(price_limit, interval)
        /\ elseBand.label = "Over " \o bound(elseBand.lo)
        /\ (price_limit % interval = 0 => elseBand.lo = price_limit)
        /\ \A i \in 1..Len(whens) : whens[i].lo < price_limit

C3_Witness ==
    /\ BandsBuilt
    /\ ValidRange
    /\ price_limit % interval # 0
    /\ elseBand.lo > price_limit
    /\ elseBand.lo >= MegaThreshold

Scenario100x300 == interval = 100 /\ price_limit = 300

\* C4 as stated: interval=100, limit=300 gives the labels "0-100K",
\* "100K-200K", "200K-300K", "Over 300K" and the half-open boundaries
\* [0,100000), [100000,200000), [200000,300000), [300000,inf).
C4_ScenarioOriginal ==
    (BandsBuilt /\ Scenario100x300) =>
        /\ [i \in 1..NumBands |-> BandLabel(i)]
              = <<"0-100K", "100K-200K", "200K-300K", "Over 300K">>
        /\ [i \in 1..NumBands |-> BandLo(i)] = <<0, 100, 200, 300>>
        /\ (pc = "classified" =>
               \A i \in 1..NumBands :
                   (BandLabel(i) = price_band) <=> InLowerClosed(i, price_gbp))

\* The label the scenario's CASE gives to price p, bounds taken upper-closed.
ScenarioLabel(p) ==
    IF p <= 100000 THEN "0K-100K"
    ELSE IF p <= 200000 THEN "100K-200K"
    ELSE IF p <= 300000 THEN "200K-300K"
    ELSE "Over 300K"

\* C4 amended: interval=100, limit=300 gives exactly four bands labelled
\* "0K-100K", "100K-200K", "200K-300K", "Over 300K" in that order, with
\* boundaries up to 100000, (100000,200000], (200000,300000], over 300000.
C4_ScenarioUpperClosed ==
    (BandsBuilt /\ Scenario100x300) =>
        /\ NumBands = 4
        /\ [i \in 1..NumBands |-> BandLabel(i)]
              = <<"0K-100K", "100K-200K", "200K-300K", "Over 300K">>
        /\ [i \in 1..NumBands |-> BandLo(i)] = <<0, 100, 200, 300>>
        /\ [i \in 1..Len(whens) |-> whens[i].threshold]
              = <<100000, 200000, 300000>>
        /\ (pc = "classified" => price_band = ScenarioLabel(price_gbp))

C4_Witness ==
    /\ pc = "classified"
    /\ Scenario100x300
    /\ price_gbp = 300000
    /\ price_band = "200K-300K"

\* C5: whenever interval <= 0 or limit < interval the call raises, builds no
\* bands and issues no query.
C5_InvalidRangeFails ==
    (pc # "start" /\ ~ValidRange) =>
        /\ error # "none"
        /\ whens = <<>> /\ elseBand = NoBand
        /\ ~queryIssued

(***************************************************************************)
(* Properties of the adjustment factors.                                   *)
(***************************************************************************)
CpiFinished == pc = "done"

CpiReturned == CpiFinished /\ cpi_error = "none"

RpiFinished == pc \in {"rpi_done", "cpi_fetched", "done"}

RpiReturned == RpiFinished /\ rpi_error = "none"

AllPositive(series) == \A i \in DOMAIN series : IsPositive(series[i].value)

MaxOf(S) == CHOOSE x \in S : \A y \in S : x >= y

MinOf(S) == CHOOSE x \in S : \A y \in S : x <= y

\* The base year in effect: the one given, or the latest year of the series.
EffectiveBaseYear(series) ==
    IF base_year = None THEN MaxOf(Index(series)) ELSE base_year

\* C6: when the series has only strictly positive values, the factors that
\* get_uk_cpi and get_uk_rpi return are exactly 1 at the base year, given
\* or defaulted to the latest year.
C6_BaseYearFactorIsOne ==
    /\ (CpiReturned /\ AllPositive(cpi_data)) =>
           /\ EffectiveBaseYear(cpi_data) \in Index(cpi_factors)
           /\ At(cpi_factors, EffectiveBaseYear(cpi_data)) = One
    /\ (RpiReturned /\ AllPositive(rpi_data)) =>
           /\ EffectiveBaseYear(rpi_data) \in Index(rpi_factors)
           /\ At(rpi_factors, EffectiveBaseYear(rpi_data)) = One

C6_Witness ==
    /\ CpiReturned /\ RpiReturned
    /\ AllPositive(cpi_data) /\ AllPositive(rpi_data)
    /\ Len(cpi_data) >= 2 /\ Len(rpi_data) >= 2
    /\ base_year # None
    /\ base_year # cpi_data[1].year
    /\ cpi_data[1].value # cpi_base
    /\ At(cpi_factors, base_year) = One
    /\ At(rpi_factors, base_year) = One

\* The years of the requested range for which a monthly row was published:
\* the keys of the range-filtered RPI series.
MonthlyYears ==
    {y \in start_year..end_year :
        \E i \in DOMAIN raw : MatchesMonthly(raw[i].date) /\ raw[i].date.year = y}

\* The keys of the CPI series: every year from the first to the last of them.
CpiYears ==
    IF MonthlyYears = {} THEN {} ELSE MinOf(MonthlyYears)..MaxOf(MonthlyYears)

RpiSeriesBuilt ==
    RpiFinished /\ rpi_error # "ValueError: Failed to download RPI data"

\* C7 as stated: an explicit base year that is not a key of the
\* range-filtered series makes both paths fail with the base-year-not-found
\* error and return no factors.
C7_BaseYearNotFoundOriginal ==
    /\ (CpiFinished /\ base_year # None /\ base_year \notin CpiYears) =>
           /\ cpi_error = "ValueError: Base year not found in CPI data"
           /\ cpi_factors = <<>>
    /\ (RpiSeriesBuilt /\ base_year # None /\ base_year \notin MonthlyYears) =>
           /\ rpi_error = "ValueError: Base year not found in RPI data"
           /\ rpi_factors = <<>>

\* C7 amended: an explicit base year that is not a key of the range-filtered
\* series makes both paths fail and return no factors; the failure is the
\* base-year-not-found error whenever that series is not empty (an empty
\* series fails earlier, with the no-data error on the RPI path).
C7_BaseYearNotFound ==
    /\ (CpiFinished /\ base_year # None /\ base_year \notin CpiYears) =>
           /\ cpi_error # "none"
           /\ cpi_factors = <<>>
           /\ CpiYears # {} =>
                 cpi_error = "ValueError: Base year not found in CPI data"
    /\ (RpiSeriesBuilt /\ base_year # None /\ base_year \notin MonthlyYears) =>
           /\ rpi_error # "none"
           /\ rpi_factors = <<>>
           /\ MonthlyYears # {} =>
                 rpi_error = "ValueError: Base year not found in RPI data"
           /\ MonthlyYears = {} => rpi_error = "ValueError: No RPI data found"

C7_Witness ==
    /\ pc = "done"
    /\ base_year # None
    /\ MonthlyYears # {}
    /\ base_year \notin CpiYears
    /\ \E i \in DOMAIN raw : MatchesMonthly(raw[i].date) /\ raw[i].date.year = base_year
    /\ cpi_error = "ValueError: Base year not found in CPI data"
    /\ rpi_error = "ValueError: Base year not found in RPI data"

\* C8: when both paths work on the same annual series with the same base
\* year, they return the same factors, over the same years as the series
\* and in the same order, and the factor of year y is baseValue / series[y].
C8_SameFactors ==
    (CpiReturned /\ RpiReturned /\ cpi_data = rpi_data) =>
        /\ cpi_base = rpi_base
        /\ cpi_factors = rpi_factors
        /\ [i \in DOMAIN rpi_factors |-> rpi_factors[i].year]
              = [i \in DOMAIN rpi_data |-> rpi_data[i].year]
        /\ \A i \in DOMAIN rpi_data :
              /\ cpi_factors[i].value = Div(cpi_base, cpi_data[i].value)
              /\ rpi_factors[i].value = Div(rpi_base, rpi_data[i].value)

C8_Witness ==
    /\ CpiReturned /\ RpiReturned
    /\ cpi_data = rpi_data
    /\ Len(rpi_data) >= 2
    /\ AllPositive(rpi_data)
    /\ \E i \in DOMAIN rpi_factors :
          rpi_factors[i].value # One /\ rpi_factors[i].value[2] # 1

\* C9: with no base year given, the base value of both paths is the entry
\* of the series at its largest year.
C9_LatestIsMaxYear ==
    /\ (CpiReturned /\ base_year = None) =>
           cpi_base = At(cpi_data, MaxOf(Index(cpi_data)))
    /\ (RpiReturned /\ base_year = None) =>
           rpi_base = At(rpi_data, MaxOf(Index(rpi_data)))

C9_Witness ==
    /\ CpiReturned /\ RpiReturned
    /\ base_year = None
    /\ Len(raw) >= 2
    /\ MatchesMonthly(raw[1].date) /\ MatchesMonthly(raw[2].date)
    /\ raw[1].date.year > raw[2].date.year
    /\ Len(rpi_data) >= 2
    /\ rpi_base # rpi_data[1].value
    /\ cpi_base # cpi_data[1].value
    /\ ~IsNaN(rpi_base)

(***************************************************************************)
(* Properties of process_price_data.                                       *)
(***************************************************************************)
SharedYearRegion ==
    \E i, k \in DOMAIN df_prices :
        /\ i < k
        /\ df_prices[i].year = df_prices[k].year
        /\ df_prices[i].region = df_prices[k].region

\* C10: when two input rows share the same (year, region), pivoting fails
\* with the duplicate-entries error: no frame is returned and so no value
\* is overwritten.
C10_DuplicateRowsRaise ==
    (pc # "start" /\ SharedYearRegion) =>
        /\ pc = "raised"
        /\ norm_error = "ValueError: Index contains duplicate entries"
        /\ df_processed = NoFrame

C10_Witness ==
    /\ pc = "raised"
    /\ Len(df_prices) = 2
    /\ df_prices[1].year = df_prices[2].year
    /\ df_prices[1].region = df_prices[2].region
    /\ df_prices[1].median_price # df_prices[2].median_price
    /\ norm_error = "ValueError: Index contains duplicate entries"

\* The years of the rows handed to process_price_data.
PriceYears == {df_prices[i].year : i \in DOMAIN df_prices}

\* An adjustment series is applied to the pivoted rows.
AdjustmentApplied == econ_data # <<>> /\ analysis_type # "Nominal"

\* The frame process_price_data holds before the indexing step.
ScaledFrame ==
    ProcessPivot(Pivot(df_prices), econ_data, analysis_type, FALSE)

\* C11: when an adjustment series is applied, every cell of row year is
\* multiplied by adjustment[year], and when a year is present in only one
\* of the price matrix and the adjustment series the operation fails: no
\* matrix with unscaled, missing or extra rows is returned.
C11_MissingAdjustmentYearFails ==
    (pc # "start" /\ AdjustmentApplied /\ ~SharedYearRegion) =>
        LET series == econ_data[EconKey(analysis_type)]
            pivot  == Pivot(df_prices)
        IN  IF PriceYears # Index(series)
            THEN pc = "raised" /\ norm_error # "none" /\ df_processed = NoFrame
            ELSE /\ pc = "returned"
                 /\ ScaledFrame.index = pivot.index
                 /\ \A i \in DOMAIN pivot.index : \A j \in DOMAIN pivot.columns :
                       ScaledFrame.data[i][j] =
                           Mul(pivot.data[i][j], At(series, pivot.index[i]))

\* The first row of column j of the frame that is indexed.
FirstRowCell(j) == ScaledFrame.data[1][j]

\* The first row of column j that holds a value, 0 when the column has none.
FirstPresentRow(j) ==
    IF \E i \in DOMAIN ScaledFrame.index : ~IsNaN(ScaledFrame.data[i][j])
    THEN CHOOSE i \in DOMAIN ScaledFrame.index :
            /\ ~IsNaN(ScaledFrame.data[i][j])
            /\ \A k \in 1..(i - 1) : IsNaN(ScaledFrame.data[k][j])
    ELSE 0

Indexed == pc = "returned" /\ index_to_first_year /\ df_prices # <<>>

C13_ZeroBaseFails ==
    (pc # "start" /\ index_to_first_year /\ df_prices # <<>> /\ ~SharedYearRegion) =>
        ((\E j \in DOMAIN ScaledFrame.columns :
              IsNaN(FirstRowCell(j)) \/ FirstRowCell(j) = <<0, 1>>)
            => pc = "raised" /\ norm_error # "none" /\ df_processed = NoFrame)

(***************************************************************************)
(* Properties of the two period comparisons.                               *)
(***************************************************************************)
MonthlyDone == pc = "monthly_done"

YoyFinished == pc \in {"yoy_done", "yoy_raised"}

\* C14: at both comparison sites a group with current value c and previous
\* value p gets the absolute delta c - p, and its percentage delta is null
\* exactly when p = 0 (a group new in the current period), never infinite
\* and never a crash; otherwise it is the rounded percentage of p.
C14_DeltaAndNullPercent ==
    /\ MonthlyDone =>
          \A g \in Groups : current_counts[g] > 0 =>
              \E i \in DOMAIN df_monthly :
                  /\ df_monthly[i].month = g
                  /\ df_monthly[i].count_difference =
                         current_counts[g] - previous_counts[g]
                  /\ IsNaN(df_monthly[i].percentage_change) <=> previous_counts[g] = 0
                  /\ df_monthly[i].percentage_change # Inf
    /\ YoyFinished =>
          \A g \in Groups : current_counts[g] > 0 =>
              /\ yoy_error = "none"
              /\ \E i \in DOMAIN df_yoy :
                    /\ df_yoy[i].price_band = g
                    /\ IsNaN(df_yoy[i].yoy_change) <=> previous_counts[g] = 0
                    /\ df_yoy[i].yoy_change # Inf
                    /\ previous_counts[g] > 0 =>
                          df_yoy[i].yoy_change =
                              NpRound1(Norm((current_counts[g] - previous_counts[g]) * 100,
                                            previous_counts[g]))

\* C15: the comparison emits one delta for every group present in either
\* period; a group present in the previous period only appears with
\* current value 0, so with absolute delta -previous and a change of -100
\* per cent, and is not dropped.
C15_GroupsOfEitherPeriod ==
    /\ MonthlyDone =>
          \A g \in Groups : (current_counts[g] > 0 \/ previous_counts[g] > 0) =>
              \E i \in DOMAIN df_monthly :
                  /\ df_monthly[i].month = g
                  /\ df_monthly[i].current_count = current_counts[g]
                  /\ df_monthly[i].count_difference =
                         current_counts[g] - previous_counts[g]
    /\ YoyFinished =>
          \A g \in Groups : (current_counts[g] > 0 \/ previous_counts[g] > 0) =>
              /\ yoy_error = "none"
              /\ \E i \in DOMAIN df_yoy :
                    /\ df_yoy[i].price_band = g
                    /\ current_counts[g] = 0 => df_yoy[i].yoy_change = <<-100, 1>>

(***************************************************************************)
(* Properties of main() of the home page.                                  *)
(***************************************************************************)
Processed == pc \in {"processed", "charted", "done"}

YearsAscending ==
    \A i, k \in DOMAIN df_processed.index :
        i < k => df_processed.index[i] < df_processed.index[k]

IsColumn(r) == \E j \in DOMAIN df_processed.columns : df_processed.columns[j] = r

\* C16 as stated: the normalised matrix has its years ascending and its
\* columns in the order in which the caller first requested the regions.
C16_RequestOrderOriginal ==
    Processed =>
        /\ YearsAscending
        /\ df_processed.columns = SelectSeq(selected_regions, IsColumn)

\* C16: the normalised matrix has its years ascending and its columns in
\* ascending order of the region labels, whatever the order in which the
\* caller requested the regions; the columns are the requested regions
\* that have a price row.
C16_ColumnsSortedByLabel ==
    Processed =>
        /\ YearsAscending
        /\ \A j, k \in DOMAIN df_processed.columns :
              j < k => RegionRank(df_processed.columns[j]) < RegionRank(df_processed.columns[k])
        /\ \A r \in RegionSet :
              IsColumn(r) <=>
                  /\ \E k \in DOMAIN selected_regions : selected_regions[k] = r
                  /\ \E i \in DOMAIN df_prices : df_prices[i].region = r

C16_Witness ==
    /\ Processed
    /\ selected_regions = <<"London", "East Midlands">>
    /\ df_processed.columns = <<"East Midlands", "London">>
    /\ Len(df_processed.index) >= 2

\* C18: in main(), price processing and chart rendering are reached only
\* after init_services succeeded and at least one region is selected;
\* economic data is loaded exactly when the analysis type is not Nominal;
\* and when that load raises, main() reports the error and returns
\* without processing or rendering.
C18_MainControlFlow ==
    /\ (Processed \/ charts_shown) =>
          /\ services_ready
          /\ selected_regions # <<>>
          /\ message = "none"
    /\ econ_requested => analysis_type # "Nominal"
    /\ Processed =>
          /\ econ_requested <=> analysis_type # "Nominal"
          /\ econ_data # <<>> <=> analysis_type # "Nominal"
    /\ message = "Error loading economic data" =>
          /\ pc = "returned"
          /\ econ_requested
          /\ df_processed = NoFrame
          /\ ~charts_shown
    /\ message # "none" => pc = "returned" /\ ~charts_shown

C18_Witness ==
    /\ pc = "done"
    /\ charts_shown
    /\ econ_requested
    /\ analysis_type = "Real (RPI Adjusted)"
    /\ Len(df_processed.index) >= 1

(***************************************************************************)
(* Empty economic series.                                                  *)
(***************************************************************************)
\* The errors that report an empty series.
EmptySeriesErrors == {"ValueError: No RPI data found", "ValueError: No CPI data found"}

\* C17: when the economic series has no entry in the requested year range,
\* factor computation fails with an empty-series error and returns no
\* factors, on the CPI path and on the RPI path.
C17_EmptySeriesFails ==
    /\ (CpiFinished /\ CpiYears = {}) =>
           /\ cpi_error \in EmptySeriesErrors
           /\ cpi_factors = <<>>
    /\ (RpiSeriesBuilt /\ MonthlyYears = {}) =>
           /\ rpi_error \in EmptySeriesErrors
           /\ rpi_factors = <<>>

====
